---- MODULE Spec2Model ----
(***************************************************************************)
(* Model of src/comparison_gen.py: the vibrato delay-line effect           *)
(* (vibrato) and its per-channel dispatch (process_audio_file).            *)
(*                                                                         *)
(* Numbers.  Samples are integers.  Width is a rational <<num, den>> in    *)
(* seconds, SAMPLERATE and Modfreq are integers, so Width * SAMPLERATE and *)
(* Modfreq / SAMPLERATE * n are exact rationals.  np.sin is tabulated over *)
(* one period (SinTab) in units of 1 / SinScale; TAP and frac are carried  *)
(* in the same unit, and every output sample y[n] is stored multiplied by  *)
(* SinScale (y[n] = SinScale * v stands for the sample value v).           *)
(* Sequences are 1-based: Python's a[k] is a[k + 1] here, through Item.    *)
(***************************************************************************)
EXTENDS Integers, Sequences, FiniteSets, TLC

VARIABLES
    x, SAMPLERATE, Modfreq, Width,   \* arguments of vibrato
    pc, err,                         \* position in vibrato, exception raised
    DELAY, WIDTH, L, Delayline, y,   \* locals of vibrato
    n, i, frac,                      \* loop locals of vibrato
    data, ndim, processed_data,      \* locals of process_audio_file
    ch, fpc                          \* channel being applied, position in it

vars == <<x, SAMPLERATE, Modfreq, Width, pc, err, DELAY, WIDTH, L, Delayline,
          y, n, i, frac, data, ndim, processed_data, ch, fpc>>

vibratoLocals == <<DELAY, WIDTH, L, Delayline, y, n, i, frac>>
arguments == <<SAMPLERATE, Modfreq, Width>>
fileLocals == <<data, ndim, processed_data, ch, fpc>>

---------------------------------------------------------------------------
(* Bounds of the model and the input sets.                                 *)

MaxLen == 5
MaxSample == 1
MaxFrames == 3

Samples == 0..MaxSample
Impulses == {0, 1}
SampleRates == {-2, 0, 2, 4, 6}
Modfreqs == {-1, 0, 1}
Widths == {<<1, 4>>, <<1, 2>>, <<3, 4>>}

SeqsUpTo(S, m) == UNION {[1..k -> S] : k \in 0..m}
Inputs == SeqsUpTo(Samples, MaxLen)
Stereo == UNION {{<<a, b>> : a \in [1..k -> Impulses], b \in [1..k -> Impulses]} :
                 k \in 0..MaxFrames}
Mono == {<<a>> : a \in SeqsUpTo(Impulses, MaxFrames)}

---------------------------------------------------------------------------
(* Arithmetic of the source.                                               *)

Abs(a) == IF a < 0 THEN -a ELSE a
Sgn(a) == IF a < 0 THEN -1 ELSE 1

\* floor(num / den), den > 0
FloorDiv(num, den) ==
    IF num >= 0 THEN num \div den ELSE -((-num + den - 1) \div den)

\* Python's round() of the rational num / den, den > 0: to nearest, ties to even
RoundHalfUp(num, den) == FloorDiv(2 * num + den, 2 * den)
Round(num, den) ==
    LET q == FloorDiv(num, den)
        r == num - q * den
    IN  IF 2 * r < den THEN q
        ELSE IF 2 * r > den THEN q + 1
        ELSE IF q % 2 = 0 THEN q ELSE q + 1

\* round(Delay * SAMPLERATE) with Delay = Width
DelaySamples(W, SR) == Round(W[1] * SR, W[2])
\* round(Width * SAMPLERATE)
WidthSamplesHalfUp(W, SR) == RoundHalfUp(W[1] * SR, W[2])
WidthSamples(W, SR) == Round(W[1] * SR, W[2])

\* Modfreq / SAMPLERATE raises ZeroDivisionError
DivisionByZero(SR) == SR = 0

\* np.zeros(len) raises ValueError on a negative dimension
NoDimensionCheck(len) == FALSE
NegativeDimensions(len) == len < 0

Ones(len) == [k \in 1..len |-> 1]
Zeros(len) == [k \in 1..len |-> 0]
ZerosShort(a) == [k \in 1..(Len(a) - 1) |-> 0]
ZerosLike(a) == [k \in 1..Len(a) |-> 0]

\* range(LEN - 1)
RangeFull(LEN) == LEN
RangeEnd(LEN) == LEN - 1

\* np.sin over one period, in units of 1 / SinScale
SinScale == 8
SinTab == <<0, 4, 7, 8, 7, 4, 0, -4, -7, -8, -7, -4>>
\* sin(2 * pi * num / den), den # 0
Sin(num, den) ==
    SinTab[(FloorDiv(Len(SinTab) * num * Sgn(den), Abs(den)) % Len(SinTab)) + 1]

\* MOD = np.sin(M * 2 * np.pi * n), M = Modfreq / SAMPLERATE
Mod(MF, SR, k) == Sin(MF * k, SR)
\* TAP = DELAY + WIDTH * MOD
Tap(D, W, MOD) == D * SinScale + W * MOD
\* np.floor(TAP).astype(int)
Floor(TAP) == FloorDiv(TAP, SinScale)

\* a[k] of a numpy array: a negative k counts from the end
InRange(a, k) == -Len(a) <= k /\ k < Len(a)
Item(a, k) == IF k >= 0 THEN a[k + 1] ELSE a[Len(a) + k + 1]

\* np.concatenate(([s], Delayline[: L - 1]))
PushNoDiscard(line, s, len) == <<s>> \o line
Push(line, s, len) ==
    <<s>> \o SubSeq(line, 1, IF len - 1 < Len(line) THEN len - 1 ELSE Len(line))

\* Delayline[i] * frac + Delayline[i - 1] * (1 - frac)
InterpolateSwapped(line, k, f) ==
    Item(line, k) * (SinScale - f) + Item(line, k - 1) * f
Interpolate(line, k, f) ==
    Item(line, k) * f + Item(line, k - 1) * (SinScale - f)

---------------------------------------------------------------------------
(* vibrato(x, SAMPLERATE, Modfreq, Width)                                  *)

Raise(e) ==
    /\ pc' = "error"
    /\ err' = e

\* lines 8-18: derive the delays, validate, allocate
Enter ==
    /\ pc = "start"
    /\ LET D == DelaySamples(Width, SAMPLERATE)
           W == WidthSamples(Width, SAMPLERATE)
           len == 2 + D + W * 2
       IN  /\ DELAY' = D
           /\ WIDTH' = W
           /\ IF W > D
              THEN /\ Raise("WidthGreaterThanDelay")
                   /\ UNCHANGED <<L, Delayline, y>>
              ELSE IF DivisionByZero(SAMPLERATE)
              THEN /\ Raise("ZeroDivisionError")
                   /\ UNCHANGED <<L, Delayline, y>>
              ELSE IF NegativeDimensions(len)
              THEN /\ Raise("NegativeDimensions")
                   /\ L' = len
                   /\ UNCHANGED <<Delayline, y>>
              ELSE /\ pc' = "loop"
                   /\ L' = len
                   /\ Delayline' = Zeros(len)
                   /\ y' = ZerosLike(x)
                   /\ UNCHANGED err
    /\ UNCHANGED <<x, arguments, n, i, frac, fileLocals>>

\* lines 20-28: one pass of the loop body, for the sample index n
Iterate ==
    /\ pc = "loop"
    /\ n < RangeEnd(Len(x))
    /\ LET MOD == Mod(Modfreq, SAMPLERATE, n)
           TAP == Tap(DELAY, WIDTH, MOD)
           k == Floor(TAP)
           f == TAP - k * SinScale
           line == Push(Delayline, x[n + 1], L)
       IN  /\ i' = k
           /\ frac' = f
           /\ Delayline' = line
           /\ IF InRange(line, k) /\ InRange(line, k - 1)
              THEN /\ y' = [y EXCEPT ![n + 1] = Interpolate(line, k, f)]
                   /\ n' = n + 1
                   /\ UNCHANGED <<pc, err>>
              ELSE /\ Raise("IndexError")
                   /\ UNCHANGED <<y, n>>
    /\ UNCHANGED <<x, arguments, DELAY, WIDTH, L, fileLocals>>

\* line 30: return y
Return ==
    /\ pc = "loop"
    /\ n >= RangeEnd(Len(x))
    /\ pc' = "done"
    /\ UNCHANGED <<x, arguments, err, vibratoLocals, fileLocals>>

---------------------------------------------------------------------------
(* process_audio_file(input_filename, output_filename, Modfreq, Width)     *)

\* the 1-d slice of data along axis 0 handed to vibrato for channel c
FirstColumn(d, c) == d[1]
Column(d, c) == d[c]

\* lines 38-40, 43: the next call of vibrato, with fresh locals
Call ==
    /\ fpc = "apply"
    /\ pc = "idle"
    /\ ch <= Len(data)
    /\ x' = Column(data, ch)
    /\ pc' = "start"
    /\ n' = 0
    /\ UNCHANGED <<arguments, err, DELAY, WIDTH, L, Delayline, y, i, frac,
                   fileLocals>>

\* the array returned by vibrato becomes channel ch of processed_data
Collect ==
    /\ fpc = "apply"
    /\ pc = "done"
    /\ processed_data' = Append(processed_data, y)
    /\ ch' = ch + 1
    /\ pc' = "idle"
    /\ UNCHANGED <<x, arguments, err, vibratoLocals, data, ndim, fpc>>

\* an exception of vibrato leaves process_audio_file; nothing is written
Propagate ==
    /\ fpc = "apply"
    /\ pc = "error"
    /\ fpc' = "failed"
    /\ UNCHANGED <<x, arguments, pc, err, vibratoLocals, data, ndim,
                   processed_data, ch>>

\* line 45: sf.write(output_filename, processed_data, samplerate)
Write ==
    /\ fpc = "apply"
    /\ pc = "idle"
    /\ ch > Len(data)
    /\ fpc' = "written"
    /\ UNCHANGED <<x, arguments, pc, err, vibratoLocals, data, ndim,
                   processed_data, ch>>

---------------------------------------------------------------------------
(* Specifications.                                                         *)

InitLocals ==
    /\ err = "none"
    /\ DELAY = 0 /\ WIDTH = 0 /\ L = 0
    /\ Delayline = <<>> /\ y = <<>>
    /\ n = 0 /\ i = 0 /\ frac = 0

InitArguments ==
    /\ SAMPLERATE \in SampleRates
    /\ Modfreq \in Modfreqs
    /\ Width \in Widths

\* one call of vibrato on a 1-d input
Init ==
    /\ x \in Inputs
    /\ InitArguments
    /\ pc = "start"
    /\ InitLocals
    /\ data = <<>> /\ ndim = 0 /\ processed_data = <<>>
    /\ ch = 0 /\ fpc = "none"

Next == Enter \/ Iterate \/ Return

Spec == Init /\ [][Next]_vars

\* one call of process_audio_file, after sf.read returned data and samplerate
InitFile ==
    /\ \/ data \in Mono /\ ndim = 1
       \/ data \in Stereo /\ ndim = 2
    /\ InitArguments
    /\ x = <<>>
    /\ pc = "idle"
    /\ InitLocals
    /\ processed_data = <<>>
    /\ ch = 1 /\ fpc = "apply"

NextFile == Call \/ Enter \/ Iterate \/ Return \/ Collect \/ Propagate \/ Write

SpecFile == InitFile /\ [][NextFile]_vars

---------------------------------------------------------------------------
(* Properties.                                                             *)

Running == pc \in {"loop", "done"}
Silent(a) == \A k \in 1..Len(a) : a[k] = 0

\* C1: with modulation frequency 0 the output is the input delayed by exactly
\* DELAY samples: output[m] = input[m - DELAY] for every processed m >= DELAY.
C1_FixedDelay ==
    (Running /\ SAMPLERATE > 0 /\ Modfreq = 0) =>
        \A m \in 0..(n - 1) :
            m >= DELAY => y[m + 1] = SinScale * x[m - DELAY + 1]

\* C2: for every processed sample both delay-line read indices, floor(TAP)
\* and floor(TAP) - 1, lie in 0 .. L - 1.
C2_ReadsInRange ==
    (Running /\ SAMPLERATE > 0 /\ n > 0) => (0 <= i - 1 /\ i < L)

\* C3: for a non-empty input only the sample indices below length - 1 are
\* computed, and the final output slot stays 0.
C3_LastSlotZero ==
    (Running /\ Len(x) >= 1) => (n <= Len(x) - 1 /\ y[Len(x)] = 0)

C3_Witness ==
    /\ pc = "done"
    /\ Len(x) >= 2
    /\ x[Len(x)] # 0
    /\ y[Len(x) - 1] # 0
    /\ y[Len(x)] = 0

\* C4: the output sequence has exactly the length of the input sequence.
C4_SameLength ==
    Running => Len(y) = Len(x)

C4_Witness ==
    /\ pc = "done"
    /\ Len(x) >= 3
    /\ Len(y) = Len(x)
    /\ n = Len(x) - 1

\* C5: an all-zero input gives an all-zero output, whatever the modulation
\* frequency, width and sample rate.
C5_Silence ==
    (Running /\ Silent(x)) => Silent(y)

C5_Witness ==
    /\ pc = "done"
    /\ Len(x) >= 3
    /\ Silent(x)
    /\ Silent(y)
    /\ Modfreq # 0

\* vibrato on one channel alone, from a zero delay line, in closed form: slot k
\* of the line after the push of a[m] holds a[m - k], or 0 when k > m
HistAlone(a, m, len, k) ==
    LET j == IF k >= 0 THEN k ELSE len + k
    IN  IF j <= m THEN a[m - j + 1] ELSE 0
VibratoAlone(a) ==
    LET D == Round(Width[1] * SAMPLERATE, Width[2])
        len == 2 + 3 * D
    IN  [m1 \in 1..Len(a) |->
            IF m1 = Len(a) THEN 0
            ELSE LET m == m1 - 1
                     TAP == D * SinScale + D * Sin(Modfreq * m, SAMPLERATE)
                     k == FloorDiv(TAP, SinScale)
                     f == TAP - k * SinScale
                 IN  HistAlone(a, m, len, k) * f
                       + HistAlone(a, m, len, k - 1) * (SinScale - f)]

\* C6: every output channel is vibrato of the same input channel alone, from a
\* fresh zero delay line, and the output keeps the channel count and the
\* per-channel length of the input.
C6_ChannelsIndependent ==
    /\ \A c \in 1..Len(processed_data) :
          /\ c <= Len(data)
          /\ Len(processed_data[c]) = Len(data[c])
          /\ processed_data[c] = VibratoAlone(data[c])
    /\ fpc = "written" => Len(processed_data) = Len(data)

C6_Witness ==
    /\ fpc = "written"
    /\ ndim = 2
    /\ data = <<(<<0, 0, 0>>), (<<1, 0, 0>>)>>
    /\ Silent(processed_data[1])
    /\ ~Silent(processed_data[2])

\* C7 as stated: with a non-positive sample rate or a non-positive modulation
\* frequency the call fails at once: no sample is computed, nothing returned.
C7_RejectsNonPositive ==
    (SAMPLERATE <= 0 \/ Modfreq <= 0) => (pc # "done" /\ n = 0)

\* C7 as amended: the call fails before any sample is computed when the sample
\* rate is 0, or is negative with Width * SAMPLERATE < -1/2.
C7_FailsOnZeroOrNegativeDelay ==
    (pc # "start"
       /\ (SAMPLERATE = 0
             \/ (SAMPLERATE < 0 /\ 2 * Width[1] * SAMPLERATE < -Width[2])))
    => (pc = "error" /\ err # "none" /\ y = <<>> /\ n = 0)

C7_Witness ==
    /\ pc = "error"
    /\ SAMPLERATE < 0
    /\ err = "NegativeDimensions"
    /\ Len(x) >= 2

\* C8: DELAY and WIDTH are always equal, and the 'width greater than basic
\* delay' error is never raised.
C8_WidthEqualsDelay ==
    /\ pc # "start" => DELAY = WIDTH
    /\ err # "WidthGreaterThanDelay"

C8_Witness ==
    /\ pc = "done"
    /\ Width = <<3, 4>>
    /\ SAMPLERATE = 2
    /\ DELAY = 2
    /\ WIDTH = 2

\* C9: every pass pushes input[n] first and reads the line after that push:
\* output[n] = D[i] * frac + D[i - 1] * (1 - frac), with i = floor(TAP),
\* frac = TAP - i in [0, 1), TAP = DELAY + WIDTH * sin(2 * pi * MODFREQ * n).
C9_PushThenInterpolate ==
    [][(pc = "loop" /\ n' = n + 1) =>
         LET TAP == DELAY * SinScale + WIDTH * Sin(Modfreq * n, SAMPLERATE)
             k == CHOOSE j \in -1..L :
                      j * SinScale <= TAP /\ TAP < (j + 1) * SinScale
             f == TAP - k * SinScale
         IN  /\ Delayline'[1] = x[n + 1]
             /\ i' = k
             /\ frac' = f
             /\ 0 <= f /\ f < SinScale
             /\ y'[n + 1] = Item(Delayline', k) * f
                              + Item(Delayline', k - 1) * (SinScale - f)]_vars

C9_Witness ==
    /\ pc = "loop"
    /\ n >= 2
    /\ frac > 0
    /\ i >= 1
    /\ Item(Delayline, i) # Item(Delayline, i - 1)
    /\ y[n] # 0

\* C10: the delay line starts as L = 2 + DELAY + 2 * WIDTH zeros, keeps exactly
\* L slots, and after the push of input[m] holds input[m - k] at index k for
\* every k <= min(m, L - 1) and 0 at every index k > m.
C10_SlidingHistory ==
    Running =>
        /\ L = 2 + DELAY + 2 * WIDTH
        /\ Len(Delayline) = L
        /\ \A k \in 0..(L - 1) :
              Delayline[k + 1] = IF k <= n - 1 THEN x[n - k] ELSE 0

C10_Witness ==
    /\ pc = "loop"
    /\ n > L
    /\ x[1] # 0
    /\ Len(Delayline) = L

====
